---- MODULE Spec2Model ----
(***************************************************************************)
(* A model of the black-hole visualiser (src/src/main.rs): the per-frame   *)
(* handler BlackHoleApp::update and the ray marcher                        *)
(* BlackHoleApp::ray_trace_scene.                                          *)
(*                                                                         *)
(* Numbers.  The program computes in f32.  Here a real number r is the     *)
(* integer nearest to r * SCALE (fixed point), every arithmetic operator   *)
(* rounds its result to that grid, and the one f32 value that is not a     *)
(* number and that the program can produce, NaN, is kept as a flag: a      *)
(* vector is a record [nan, x, y, z], and a vector with nan = TRUE stands  *)
(* for (NaN, NaN, NaN).  length_squared keeps the scale SCALE * SCALE, so  *)
(* that the comparisons of squared lengths are exact on the grid.          *)
(***************************************************************************)
EXTENDS Integers, Sequences, FiniteSets

\* ------------------------------------------------------------------------
\* Bounds of the model and constants of the program
\* ------------------------------------------------------------------------

\* Fixed-point resolution: 1.0 is SCALE.
SCALE == 500

\* The raster is ImgW x ImgH (300 x 200 in main.rs:19, the same aspect ratio).
ImgW == 3
ImgH == 2

\* The azimuth is kept within MaxTurn radians of 0.
MaxTurn == 1

\* Calls of ray_trace_scene that SpecRender makes on one camera.
MaxCalls == 2

\* for _ in 0..64
MaxSteps == 64

\* ------------------------------------------------------------------------
\* Fixed-point arithmetic
\* ------------------------------------------------------------------------

\* F(a) and F(a, b) with the arguments evaluated once, before F is applied
\* (as a call does in Rust).
Call1(F(_), a) == CHOOSE r \in {F(v) : v \in {a}} : TRUE
Call2(F(_, _), a, b) == CHOOSE r \in {F(v, w) : v \in {a}, w \in {b}} : TRUE

abs(a) == Call1(LAMBDA v : IF v < 0 THEN -v ELSE v, a)

\* a / b rounded to the nearest integer, halves away from zero (b > 0).
RDivPos(a, b) == IF (a % b) >= b - (a % b) THEN (a \div b) + 1 ELSE a \div b
RDiv(a, b) == Call2(LAMBDA v, w : IF v >= 0 THEN RDivPos(v, w) ELSE -RDivPos(-v, w),
                    a, b)

\* The product of two fixed-point numbers.
Mul(a, b) == RDiv(a * b, SCALE)

RECURSIVE SqrtSearch(_, _, _)
SqrtSearch(n, lo, hi) ==
    IF lo >= hi THEN lo
    ELSE LET mid == (lo + hi + 1) \div 2
         IN  IF mid * mid <= n THEN SqrtSearch(n, mid, hi)
                               ELSE SqrtSearch(n, lo, mid - 1)

\* The integer nearest to the square root of n (0 <= n < 2^31).
sqrt(n) == Call2(LAMBDA v, r : IF v - r * r > r THEN r + 1 ELSE r,
                 n, SqrtSearch(n, 0, 46340))

Pi == RDiv(355 * SCALE, 113)
TwoPi == 2 * Pi
HalfPi == RDiv(Pi, 2)

\* sin t for |t| <= pi/2: t - t^3/6 + t^5/120 - t^7/5040.
SinPoly(t) ==
    Call2(LAMBDA v, v2 :
            Call1(LAMBDA v3 :
                    Call1(LAMBDA v5 :
                            v - RDiv(v3, 6) + RDiv(v5, 120)
                              - RDiv(Mul(v5, v2), 5040),
                          Mul(v3, v2)),
                  Mul(v2, v)),
          t, Mul(t, t))

\* f32::sin: the argument is reduced to one period, then to [-pi/2, pi/2].
sin(a) ==
    Call1(LAMBDA r : IF r <= HalfPi THEN SinPoly(r)
                     ELSE IF r <= Pi + HalfPi THEN SinPoly(Pi - r)
                     ELSE SinPoly(r - TwoPi),
          a % TwoPi)

\* f32::cos
cos(a) == sin(a + HalfPi)

\* f32::powf(10.0) of a fixed-point number p >= 0.
powf10(p) ==
    Call1(LAMBDA p2 :
            Call1(LAMBDA p4 : Mul(Mul(p4, p4), p2), Mul(p2, p2)),
          Mul(p, p))

\* `as u8` of an f32 that is v / SCALE: truncated, saturating at 0 and 255.
as_u8(v) ==
    Call1(LAMBDA t : IF t > 255 THEN 255 ELSE t,
          IF v >= 0 THEN v \div SCALE ELSE 0)

\* ------------------------------------------------------------------------
\* glam::Vec3
\* ------------------------------------------------------------------------

vec3(a, b, c) == [nan |-> FALSE, x |-> a, y |-> b, z |-> c]

\* (NaN, NaN, NaN)
NaNVec == [nan |-> TRUE, x |-> 0, y |-> 0, z |-> 0]

\* Vec3::ZERO
ZERO == vec3(0, 0, 0)

\* Vec3::Y
Y == vec3(0, SCALE, 0)

add(a, b) ==
    Call2(LAMBDA v, w : IF v.nan \/ w.nan THEN NaNVec
                        ELSE vec3(v.x + w.x, v.y + w.y, v.z + w.z),
          a, b)

sub(a, b) ==
    Call2(LAMBDA v, w : IF v.nan \/ w.nan THEN NaNVec
                        ELSE vec3(v.x - w.x, v.y - w.y, v.z - w.z),
          a, b)

neg(a) == Call1(LAMBDA v : IF v.nan THEN NaNVec ELSE vec3(-v.x, -v.y, -v.z), a)

\* Vec3 * f32
scale(a, k) ==
    Call2(LAMBDA v, w : IF v.nan THEN NaNVec
                        ELSE vec3(Mul(v.x, w), Mul(v.y, w), Mul(v.z, w)),
          a, k)

\* Vec3::length_squared, at scale SCALE * SCALE.  Only of a vector that is
\* not NaN: every use tests nan first (a comparison with NaN is false).
length_squared(a) == Call1(LAMBDA v : v.x * v.x + v.y * v.y + v.z * v.z, a)

\* Vec3::length
length(a) == sqrt(length_squared(a))

\* Vec3::normalize: self * (1.0 / self.length()); the zero vector gives
\* 0 * inf = NaN in every component.
normalize(a) ==
    Call1(LAMBDA v :
            IF v.nan THEN NaNVec
            ELSE Call1(LAMBDA len :
                         IF len = 0 THEN NaNVec
                         ELSE vec3(RDiv(v.x * SCALE, len), RDiv(v.y * SCALE, len),
                                   RDiv(v.z * SCALE, len)),
                       length(v)),
          a)

\* Vec3::cross
cross(a, b) ==
    Call2(LAMBDA v, w :
            IF v.nan \/ w.nan THEN NaNVec
            ELSE vec3(RDiv(v.y * w.z - v.z * w.y, SCALE),
                      RDiv(v.z * w.x - v.x * w.z, SCALE),
                      RDiv(v.x * w.y - v.y * w.x, SCALE)),
          a, b)

\* ------------------------------------------------------------------------
\* egui::Color32 and egui::ColorImage
\* ------------------------------------------------------------------------

\* Color32::BLACK
BLACK == <<0, 0, 0>>

\* Color32::WHITE
WHITE == <<255, 255, 255>>

\* Color32::from_rgb
from_rgb(r, g, b) == <<r, g, b>>

\* The cells (x, y) of the raster.
Cells == (0 .. ImgW - 1) \X (0 .. ImgH - 1)

AllPixels(c) == [cell \in Cells |-> c]

\* ColorImage::new([w, h], vec![Color32::BLACK; w * h])
InitialImage == AllPixels(BLACK)

\* texture: None
NoTexture == [loaded |-> FALSE, pixels |-> InitialImage]

\* Some(handle) of a texture holding a copy of img
Texture(img) == [loaded |-> TRUE, pixels |-> img]

\* ------------------------------------------------------------------------
\* The camera of ray_trace_scene
\* ------------------------------------------------------------------------

\* width as f32 / height as f32
aspect_ratio == RDiv(ImgW * SCALE, ImgH)

\* vec3(radius * azimuth.cos(), 3.0, radius * azimuth.sin())
CamPos(r, a) == vec3(Mul(r, cos(a)), 3 * SCALE, Mul(r, sin(a)))

\* look_at
look_at == ZERO

\* (look_at - cam_pos).normalize()
Forward(cp) == normalize(sub(look_at, cp))

\* forward.cross(Vec3::Y).normalize() * aspect_ratio
Right(fwd) == scale(normalize(cross(fwd, Y)), aspect_ratio)

\* right.cross(forward)
Up(rgt, fwd) == cross(rgt, fwd)

schwarzschild_radius == SCALE

\* schwarzschild_radius * schwarzschild_radius, at the scale of length_squared
sr_squared == schwarzschild_radius * schwarzschild_radius

\* (i as f32 / n as f32) * 2.0 - 1.0
Ndc(i, n) == RDiv(i * SCALE, n) * 2 - SCALE

\* (forward + right * u - up * v).normalize()
InitialDir(fwd, rgt, upv, cx, cy) ==
    normalize(sub(add(fwd, scale(rgt, Ndc(cx, ImgW))), scale(upv, Ndc(cy, ImgH))))

\* Faulty variant of InitialColor: the pixel starts from the cell's colour.
InitialColorOfCell(img, cell) == img[cell]

\* let mut final_color = egui::Color32::BLACK, whatever the cell holds
InitialColor(img, cell) == BLACK

\* ------------------------------------------------------------------------
\* One integration step
\* ------------------------------------------------------------------------

\* -ray_pos.normalize() * (1.0 / dist_sq) * 2.5
Gravity(pos) ==
    IF pos.nan THEN NaNVec
    ELSE Call1(LAMBDA dist_sq :
                 IF dist_sq = 0 THEN NaNVec
                 ELSE scale(scale(neg(normalize(pos)),
                                  RDiv(SCALE * SCALE * SCALE, dist_sq)),
                            (5 * SCALE) \div 2),
               length_squared(pos))

\* Faulty variant of NewDirection: the sum is not renormalised.
NewDirectionUnnormalized(dir, pos) == add(dir, Gravity(pos))

\* ray_dir = (ray_dir + gravity).normalize()
NewDirection(dir, pos) == normalize(add(dir, Gravity(pos)))

\* ray_pos += ray_dir * 0.5
NewPosition(pos, dir) == add(pos, scale(dir, SCALE \div 2))

\* Faulty variant of HorizonCapture: the comparison is turned round.
HorizonCaptureFlipped(p) == ~p.nan /\ length_squared(p) > sr_squared

\* ray_pos.length_squared() < sr_squared
HorizonCapture(p) == ~p.nan /\ length_squared(p) < sr_squared

\* vec2(ray_pos.x, ray_pos.z).length()
DistFromCenter(p) == sqrt(p.x * p.x + p.z * p.z)

\* ray_pos.y.abs() < 0.1 and the band test on dist_from_center
DiskHit(p) ==
    /\ ~p.nan
    /\ abs(p.y) < SCALE \div 10
    /\ Call1(LAMBDA dist_from_center :
                /\ dist_from_center > (schwarzschild_radius * 3) \div 2
                /\ dist_from_center < schwarzschild_radius * 4,
             DistFromCenter(p))

\* ray_pos.length() > 60.0
Escape(p) == ~p.nan /\ length(p) > 60 * SCALE

\* ((dist_from_center * 5.0).sin() + 1.0) * 0.5
Pattern(d) == Mul(sin(Mul(d, 5 * SCALE)) + SCALE, SCALE \div 2)

\* from_rgb((255.0 * pattern) as u8, (120.0 * pattern) as u8, 0)
DiskColor(p) ==
    Call1(LAMBDA pattern : from_rgb(as_u8(255 * pattern), as_u8(120 * pattern), 0),
          Pattern(DistFromCenter(p)))

\* (ray_dir.x.sin() * ray_dir.z.sin()).abs().powf(10.0); NaN for a NaN
\* direction, kept as -1: every comparison with it is false.
StarVal(dir) == IF dir.nan THEN -1
                ELSE powf10(abs(Mul(sin(dir.x), sin(dir.z))))

\* Faulty variant of StarHit: the comparison is turned round.
StarHitBelow(sv) == sv >= 0 /\ sv < SCALE \div 2

\* star_val > 0.5 (false of NaN)
StarHit(sv) == sv >= 0 /\ sv > SCALE \div 2

\* The first of the three tests that fires at the position a step reached, in
\* the order of the code: horizon, disk, escape.
Outcome(p) ==
    IF HorizonCapture(p) THEN "Captured"
    ELSE IF DiskHit(p) THEN "DiskHit"
    ELSE IF Escape(p) THEN "Escaped"
    ELSE "Traveling"

\* Faulty variant of Breaks: the escape branch breaks only inside its `if`.
BreaksIfColoured(out, sv) ==
    out \in {"Captured", "DiskHit"} \/ (out = "Escaped" /\ StarHit(sv))

\* Whether the step ends in `break`: each of the three branches does.
Breaks(out, sv) == out # "Traveling"

\* final_color after the step
ColorAfter(out, p, sv, color) ==
    IF out = "Captured" THEN BLACK
    ELSE IF out = "DiskHit" THEN DiskColor(p)
    ELSE IF out = "Escaped" /\ StarHit(sv) THEN WHITE
    ELSE color

\* Faulty variant of LoopContinues: 0..=64.
LoopContinuesInclusive(n) == n <= MaxSteps

\* for _ in 0..64: whether an iteration follows n completed ones
LoopContinues(n) == n < MaxSteps

\* Faulty variant of Written: a black pixel is not written.
WrittenIfLit(img, cell, color) ==
    IF color = BLACK THEN img ELSE [img EXCEPT ![cell] = color]

\* self.image[(x, y)] = final_color
Written(img, cell, color) == [img EXCEPT ![cell] = color]

\* Faulty variant of Advance: for x in 0..width - 1.
AdvanceShort(cx, cy) == IF cx + 1 < ImgW - 1 THEN <<cx + 1, cy>> ELSE <<0, cy + 1>>

\* for y in 0..height { for x in 0..width { .. } }: the cell after (cx, cy)
Advance(cx, cy) == IF cx + 1 < ImgW THEN <<cx + 1, cy>> ELSE <<0, cy + 1>>

\* ------------------------------------------------------------------------
\* State
\* ------------------------------------------------------------------------

VARIABLES
    \* BlackHoleApp
    image, texture, radius, azimuth,
    \* where update stands: "slider", "image", "drag", "trace", "set", and
    \* inside ray_trace_scene "pixel", "loop", "store"
    pc,
    \* update: response.is_pointer_button_down_on() and drag_delta.x (pixels)
    pointer_down, drag_delta,
    \* ray_trace_scene: its locals
    cam_pos, forward, right, up, x, y, ray_pos, ray_dir, final_color, star_val,
    \* the pixel's state (Traveling, Captured, DiskHit, Escaped) and the
    \* iterations of its loop that have run
    state, steps,
    \* history: the cells the running call has written, in order; the raster
    \* as the running call found it; the last write; what the texture was
    \* last given
    writes, before, lastWrite, given,
    \* SpecRender: the calls made so far and the raster the first one left
    calls, firstImage

appVars == <<image, texture, radius, azimuth, pointer_down, drag_delta>>
traceVars == <<cam_pos, forward, right, up, x, y, ray_pos, ray_dir,
               final_color, star_val, state, steps>>
histVars == <<writes, before, lastWrite, given, calls, firstImage>>
vars == <<appVars, pc, traceVars, histVars>>

\* Faulty variant of After: texture.set comes before ray_trace_scene.
AfterSetBeforeTrace(p) ==
    CASE p = "slider" -> "image"
      [] p = "image" -> "drag"
      [] p = "drag" -> "set"
      [] p = "set" -> "trace"
      [] p = "trace" -> "slider"

\* The statement of update that follows statement p (ray_trace_scene is
\* "trace"): lines 31, 43-48, 50-53, 55, 57-59, and 62 asks for the next frame.
After(p) ==
    CASE p = "slider" -> "image"
      [] p = "image" -> "drag"
      [] p = "drag" -> "trace"
      [] p = "trace" -> "set"
      [] p = "set" -> "slider"

\* Slider::new(&mut self.radius, 2.0..=50.0): the values the user can set
SliderValues == {2 * SCALE, 5 * SCALE, 50 * SCALE}

\* drag_delta.x of a frame, in pixels
DragDeltas == {-100, 0, 100}

\* Faulty variant of Orbit: the delta is added.
OrbitAdded(a, d) == a + RDiv(d * SCALE, 100)

\* self.azimuth -= drag_delta.x * 0.01
Orbit(a, d) == a - RDiv(d * SCALE, 100)

NoWrite == [valid |-> FALSE, cell |-> <<0, 0>>, state |-> "Traveling",
            steps |-> 0, star |-> 0, color |-> BLACK]

NothingGiven == [kind |-> "none", count |-> 0, cam |-> ZERO,
                 radius |-> 0, azimuth |-> 0]

TraceInit ==
    /\ cam_pos = ZERO /\ forward = ZERO /\ right = ZERO /\ up = ZERO
    /\ x = 0 /\ y = 0
    /\ ray_pos = ZERO /\ ray_dir = ZERO
    /\ final_color = BLACK /\ star_val = 0
    /\ state = "Traveling" /\ steps = 0
    /\ writes = <<>> /\ lastWrite = NoWrite /\ given = NothingGiven
    /\ calls = 1 /\ firstImage = InitialImage
    /\ pointer_down = FALSE /\ drag_delta = 0

\* BlackHoleApp::default, and update about to run for the first frame
Init ==
    /\ image = InitialImage
    /\ before = InitialImage
    /\ texture = NoTexture
    /\ radius = 15 * SCALE
    /\ azimuth = 0
    /\ pc = "slider"
    /\ TraceInit

\* ------------------------------------------------------------------------
\* update
\* ------------------------------------------------------------------------

\* ui.add(egui::Slider::new(&mut self.radius, 2.0..=50.0)): the user sets a
\* value of the range, or leaves the slider alone
Slider ==
    /\ pc = "slider"
    /\ \E r \in SliderValues \cup {radius} : radius' = r
    /\ pc' = After("slider")
    /\ UNCHANGED <<image, texture, azimuth, pointer_down, drag_delta,
                   traceVars, histVars>>

\* self.texture.get_or_insert_with(|| load_texture(.., self.image.clone(), ..))
ShowImage ==
    /\ pc = "image"
    /\ texture' = IF texture.loaded THEN texture ELSE Texture(image)
    /\ given' = IF texture.loaded THEN given
                ELSE [kind |-> "initial", count |-> 0, cam |-> cam_pos,
                      radius |-> radius, azimuth |-> azimuth]
    /\ pc' = After("image")
    /\ UNCHANGED <<image, radius, azimuth, pointer_down, drag_delta, traceVars,
                   writes, before, lastWrite, calls, firstImage>>

\* if response.is_pointer_button_down_on() { self.azimuth -= drag_delta.x * 0.01 }
Drag ==
    /\ pc = "drag"
    /\ \E down \in BOOLEAN, d \in DragDeltas :
          /\ ~down => d = 0
          /\ abs(Orbit(azimuth, d)) <= MaxTurn * SCALE
          /\ pointer_down' = down
          /\ drag_delta' = d
          /\ azimuth' = IF down THEN Orbit(azimuth, d) ELSE azimuth
    /\ pc' = After("drag")
    /\ UNCHANGED <<image, texture, radius, traceVars, histVars>>

\* texture.set(self.image.clone(), ..) if there is a texture, then
\* ctx.request_repaint(): the next frame follows
TextureSet ==
    /\ pc = "set"
    /\ texture' = IF texture.loaded THEN Texture(image) ELSE texture
    /\ given' = IF texture.loaded
                THEN [kind |-> "frame", count |-> Len(writes), cam |-> cam_pos,
                      radius |-> radius, azimuth |-> azimuth]
                ELSE given
    /\ pc' = After("set")
    /\ UNCHANGED <<image, radius, azimuth, pointer_down, drag_delta, traceVars,
                   writes, before, lastWrite, calls, firstImage>>

\* ------------------------------------------------------------------------
\* ray_trace_scene
\* ------------------------------------------------------------------------

\* lines 68-82: the camera basis, and the loops start at (0, 0)
BeginTrace ==
    /\ pc = "trace"
    /\ \E cp \in {CamPos(radius, azimuth)} :
       \E fwd \in {Forward(cp)} :
       \E rgt \in {Right(fwd)} :
           /\ cam_pos' = cp
           /\ forward' = fwd
           /\ right' = rgt
           /\ up' = Up(rgt, fwd)
    /\ x' = 0 /\ y' = 0
    /\ writes' = <<>>
    /\ before' = image
    /\ pc' = "pixel"
    /\ UNCHANGED <<appVars, ray_pos, ray_dir, final_color, star_val, state,
                   steps, lastWrite, given, calls, firstImage>>

\* lines 83-89: the pixel's ray
PixelInit ==
    /\ pc = "pixel"
    /\ ray_dir' = InitialDir(forward, right, up, x, y)
    /\ ray_pos' = cam_pos
    /\ final_color' = InitialColor(image, <<x, y>>)
    /\ star_val' = 0
    /\ state' = "Traveling"
    /\ steps' = 0
    /\ pc' = IF LoopContinues(0) THEN "loop" ELSE "store"
    /\ UNCHANGED <<appVars, cam_pos, forward, right, up, x, y, histVars>>

\* lines 91-119: one iteration of the loop
IntegrateStep ==
    /\ pc = "loop"
    /\ \E dir \in {NewDirection(ray_dir, ray_pos)} :
       \E pos \in {NewPosition(ray_pos, dir)} :
       \E out \in {Outcome(pos)} :
       \E sv \in {IF out = "Escaped" THEN StarVal(dir) ELSE star_val} :
       \E brk \in {Breaks(out, sv)} :
           /\ ray_dir' = dir
           /\ ray_pos' = pos
           /\ star_val' = sv
           /\ final_color' = ColorAfter(out, pos, sv, final_color)
           /\ state' = IF brk THEN out ELSE "Traveling"
           /\ steps' = steps + 1
           /\ pc' = IF brk \/ ~LoopContinues(steps + 1) THEN "store" ELSE "loop"
    /\ UNCHANGED <<appVars, cam_pos, forward, right, up, x, y, histVars>>

\* line 120, and the loops move on
StorePixel ==
    /\ pc = "store"
    /\ image' = Written(image, <<x, y>>, final_color)
    /\ writes' = Append(writes, <<x, y>>)
    /\ lastWrite' = [valid |-> TRUE, cell |-> <<x, y>>, state |-> state,
                     steps |-> steps, star |-> star_val, color |-> final_color]
    /\ \E cell \in {Advance(x, y)} :
           /\ x' = cell[1]
           /\ y' = cell[2]
           /\ pc' = IF cell[2] < ImgH THEN "pixel" ELSE After("trace")
    /\ UNCHANGED <<texture, radius, azimuth, pointer_down, drag_delta, cam_pos,
                   forward, right, up, ray_pos, ray_dir, final_color, star_val,
                   state, steps, before, given, calls, firstImage>>

TraceNext == BeginTrace \/ PixelInit \/ IntegrateStep \/ StorePixel

Next == Slider \/ ShowImage \/ Drag \/ TraceNext \/ TextureSet

\* The application: frames of update, one after the other.
Spec == Init /\ [][Next]_vars

\* ------------------------------------------------------------------------
\* ray_trace_scene as a function of the camera and the raster it finds
\* ------------------------------------------------------------------------

\* Radii: 0 (the camera on the axis, where right is NaN), radii of the
\* slider's range, and radii beyond 60, where rays escape.
RenderRadii == {0, 2 * SCALE, 5 * SCALE, 15 * SCALE, 50 * SCALE,
                (603 * SCALE) \div 10, 70 * SCALE}

RenderAzimuths == {a * SCALE : a \in -MaxTurn .. MaxTurn}

Checker == [cell \in Cells |->
              IF (cell[1] + cell[2]) % 2 = 0 THEN WHITE ELSE from_rgb(255, 120, 0)]

InitRender ==
    /\ image = Checker
    /\ before = image
    /\ texture = NoTexture
    /\ radius \in RenderRadii
    /\ azimuth \in RenderAzimuths
    /\ pc = "trace"
    /\ TraceInit

\* The same camera is rendered again, over the raster the call left or over
\* another one.
CallAgain ==
    /\ pc = "set"
    /\ calls < MaxCalls
    /\ firstImage' = IF calls = 1 THEN image ELSE firstImage
    /\ calls' = calls + 1
    /\ \E img \in {image, AllPixels(WHITE)} : image' = img
    /\ lastWrite' = NoWrite
    /\ pc' = "trace"
    /\ UNCHANGED <<texture, radius, azimuth, pointer_down, drag_delta, traceVars,
                   writes, before, given>>

NextRender == TraceNext \/ CallAgain

SpecRender == InitRender /\ [][NextRender]_vars

\* ------------------------------------------------------------------------
\* Properties
\* ------------------------------------------------------------------------

InTrace == pc \in {"pixel", "loop", "store"}

\* The colour a pixel's state stands for at the position and direction the
\* ray has when the state is entered.
ColorOfState(st, p, d) ==
    IF st = "DiskHit" THEN DiskColor(p)
    ELSE IF st = "Escaped" /\ StarHit(StarVal(d)) THEN WHITE
    ELSE BLACK

\* C1: a pixel's integration starts in Traveling; each step moves the pixel
\* to the state of the first test that fires at the position the step
\* reached (horizon, then disk, then escape) or leaves it Traveling when none
\* does; a pixel in a terminal state takes no further step; and the colour
\* written for the pixel is the colour chosen when its state was entered.
\* Escape ends the loop whatever the star test says.
C1_FirstTerminalDecides ==
    [][ /\ pc = "pixel" => state' = "Traveling" /\ steps' = 0
        /\ pc = "loop" =>
              /\ state = "Traveling"
              /\ steps' = steps + 1
              /\ state' = Outcome(ray_pos')
              /\ state' # "Traveling" => pc' = "store"
              /\ Escape(ray_pos') /\ ~HorizonCapture(ray_pos') /\ ~DiskHit(ray_pos')
                    => state' = "Escaped" /\ pc' = "store"
        /\ pc = "store" =>
              /\ final_color = ColorOfState(state, ray_pos, ray_dir)
              /\ image'[<<x, y>>] = final_color
        /\ pc # "loop" => steps' = steps \/ steps' = 0
      ]_vars

\* C1: a pixel that escaped without a star at its first step has been written.
C1_Witness ==
    /\ lastWrite.valid
    /\ lastWrite.state = "Escaped"
    /\ ~StarHit(lastWrite.star)
    /\ lastWrite.steps < MaxSteps
    /\ image[lastWrite.cell] = BLACK

\* The steps a call can still take: per pixel its start, at most 64
\* iterations and its write.
StepsLeft ==
    LET perPixel == MaxSteps + 2
        cellsLeft == ImgW * ImgH - Len(writes)
    IN  CASE pc = "trace" -> ImgW * ImgH * perPixel + 1
          [] pc = "pixel" -> cellsLeft * perPixel
          [] pc = "loop" -> cellsLeft * perPixel - 1 - steps
          [] pc = "store" -> (cellsLeft - 1) * perPixel + 1
          [] OTHER -> 0

\* C2: no pixel's loop runs more than 64 iterations, whatever the camera and
\* whether or not the ray is NaN; every step of a call brings its end nearer
\* (StepsLeft decreases and is never negative), so the call ends; and it
\* ends having integrated and written width * height pixels.
C2_BoundedLoop ==
    [][ /\ steps' <= MaxSteps
        /\ pc' = "loop" => steps' < MaxSteps
        /\ pc = "trace" \/ InTrace => StepsLeft' < StepsLeft /\ StepsLeft' >= 0
        /\ pc = "store" /\ pc' = "set" => Len(writes') = ImgW * ImgH
        /\ pc' = "set" => pc \in {"store", "set"}
      ]_vars

\* C2: a NaN ray has run its 64 iterations and its loop is over.
C2_Witness ==
    /\ pc = "store"
    /\ ray_dir.nan /\ ray_pos.nan
    /\ steps = MaxSteps

\* C3: a pixel whose loop ran out (64 iterations, still Traveling), a
\* Captured pixel and an Escaped pixel with star_val <= 0.5 are written
\* black, whatever the cell held before.
C3_NoHitIsBlack ==
    lastWrite.valid =>
        /\ lastWrite.state = "Traveling" => lastWrite.steps = MaxSteps
        /\ \/ lastWrite.state \in {"Traveling", "Captured"}
           \/ (lastWrite.state = "Escaped" /\ lastWrite.star >= 0
                 /\ lastWrite.star <= SCALE \div 2)
           => image[lastWrite.cell] = BLACK

\* C3: a cell that held white was written black by a pixel whose loop ran out.
C3_Witness ==
    /\ lastWrite.valid
    /\ lastWrite.state = "Traveling"
    /\ lastWrite.steps = MaxSteps
    /\ before[lastWrite.cell] = WHITE
    /\ image[lastWrite.cell] = BLACK

\* C4: a second call of ray_trace_scene with the same radius, azimuth, width
\* and height leaves the raster the first call left, whatever the raster
\* held when each call began.
C4_Deterministic ==
    pc = "set" /\ calls >= 2 => image = firstImage

\* C4: the second call began on another raster than the first left, and left
\* the same raster, which is not all black.
C4_Witness ==
    /\ pc = "set" /\ calls = 2
    /\ before # firstImage
    /\ image = firstImage
    /\ \E c \in Cells : image[c] # BLACK

\* C5: the texture holds either the initial all-black image or a copy of the
\* raster made after ray_trace_scene wrote all width * height pixels of the
\* frame, with the camera that the frame's slider and drag input left; while
\* the next frame's call rewrites the raster the texture keeps that copy.
C5_TextureNeverPartial ==
    /\ given.kind = "none" <=> ~texture.loaded
    /\ given.kind = "initial" => texture.pixels = InitialImage
    /\ given.kind = "frame" =>
          /\ given.count = ImgW * ImgH
          /\ given.cam = CamPos(given.radius, given.azimuth)
          /\ texture.pixels = IF InTrace \/ pc = "set" THEN before ELSE image

\* C5: the raster is partly rewritten and the texture still holds the whole
\* raster of the frame before.
C5_Witness ==
    /\ given.kind = "frame"
    /\ pc = "loop"
    /\ Len(writes) > 0
    /\ texture.pixels # InitialImage
    /\ texture.pixels # image

\* C6: a frame with the pointer down on the image and drag delta d sets
\* azimuth to azimuth - 0.01 * d and leaves radius alone; a frame without
\* leaves azimuth alone; only the slider changes radius; ray_trace_scene
\* changes neither.
C6_CameraOnlyByInput ==
    [][ /\ pc = "drag" =>
              /\ radius' = radius
              /\ azimuth' = IF pointer_down'
                            THEN azimuth - RDiv(drag_delta' * SCALE, 100)
                            ELSE azimuth
        /\ pc # "drag" => azimuth' = azimuth
        /\ pc # "slider" => radius' = radius
        /\ pc = "trace" \/ InTrace => radius' = radius /\ azimuth' = azimuth
      ]_vars

\* C6: the pointer was down with a drag of 100 pixels, and the azimuth went
\* from 0 to -1.0.
C6_Witness ==
    /\ pc = "trace"
    /\ pointer_down /\ drag_delta = 100
    /\ azimuth = -SCALE
    /\ given.azimuth = 0

\* The i-th cell of the raster in row-major order (i from 1).
RowMajor(i) == <<(i - 1) % ImgW, (i - 1) \div ImgW>>

\* C7: a call writes the cells of the raster in row-major order, each once,
\* all of them by its end, none outside, and the raster keeps its size.
C7_RowMajorOnce ==
    /\ DOMAIN image = Cells
    /\ Len(writes) <= ImgW * ImgH
    /\ \A i \in 1 .. Len(writes) : writes[i] = RowMajor(i)
    /\ pc = "store" => <<x, y>> = RowMajor(Len(writes) + 1)
    /\ pc = "set" => Len(writes) = ImgW * ImgH

\* C7: a call has ended, having written every cell and changed the raster.
C7_Witness ==
    /\ pc = "set"
    /\ Len(writes) = ImgW * ImgH
    /\ image # before

\* C8: the ray direction is of unit length, to the grid's resolution, when
\* the integration starts and after every step.
C8_UnitDirection ==
    pc \in {"loop", "store"} =>
        /\ ~ray_dir.nan
        /\ abs(length(ray_dir) - SCALE) <= 1

\* C8: some steps have run and gravity has turned the ray.
C8_Witness ==
    /\ pc = "loop"
    /\ steps > 1
    /\ ray_dir # InitialDir(forward, right, up, x, y)
    /\ abs(length(ray_dir) - SCALE) <= 1

\* C9: at the position a step reached at most one of the three tests holds,
\* so the tests give the same state in the reverse order.
C9_TestsExclusive ==
    pc \in {"loop", "store"} /\ steps > 0 =>
        /\ ~(HorizonCapture(ray_pos) /\ DiskHit(ray_pos))
        /\ ~(HorizonCapture(ray_pos) /\ Escape(ray_pos))
        /\ ~(DiskHit(ray_pos) /\ Escape(ray_pos))
        /\ Outcome(ray_pos) = IF Escape(ray_pos) THEN "Escaped"
                              ELSE IF DiskHit(ray_pos) THEN "DiskHit"
                              ELSE IF HorizonCapture(ray_pos) THEN "Captured"
                              ELSE "Traveling"

\* C9: a step reached the disk, and neither other test holds there.
C9_Witness ==
    /\ pc = "store"
    /\ DiskHit(ray_pos)
    /\ ~HorizonCapture(ray_pos) /\ ~Escape(ray_pos)

\* (floor(255 * p), floor(120 * p), 0) for some p of [0, 1]
IsDiskColor(c) ==
    \E p \in 0 .. SCALE : c = from_rgb(as_u8(255 * p), as_u8(120 * p), 0)

\* C10: no call writes a white pixel: where the escape test fires star_val
\* is not above 0.5, and every cell a call has written is black or a disk
\* colour.
C10_NeverWhite ==
    /\ pc = "store" /\ state = "Escaped" => ~StarHit(star_val)
    /\ pc = "store" => final_color # WHITE
    /\ InTrace \/ pc = "set" => \A i \in 1 .. Len(writes) :
          /\ image[writes[i]] # WHITE
          /\ image[writes[i]] = BLACK \/ IsDiskColor(image[writes[i]])

\* C10: a cell that held white was written black by a pixel that escaped.
C10_Witness ==
    /\ lastWrite.valid
    /\ lastWrite.state = "Escaped"
    /\ before[lastWrite.cell] = WHITE
    /\ image[lastWrite.cell] = BLACK
    /\ Len(writes) = ImgW * ImgH

====
